---- MODULE Spec2Model ----
(***************************************************************************)
(* Model of package ipintel (src/ipintel.go): the process-wide token       *)
(* bucket rateLimiter, the Clients that share it and the steps of          *)
(* Client.GetProxyScore.                                                   *)
(*                                                                         *)
(* Time is counted in whole seconds since the bucket was created.  The     *)
(* bucket is github.com/juju/ratelimit's Bucket (its current release) as   *)
(* constructed on line 21 and used on line 71: it refills lazily           *)
(* (adjustavailableTokens), take runs under the bucket's mutex, and a      *)
(* caller whose token is due within maxWait reserves it and sleeps until   *)
(* that token's tick; any other caller is refused at once.                 *)
(* Scores are kept in hundredths (0.5 is 50).                              *)
(***************************************************************************)
EXTENDS Integers, Sequences, FiniteSets, TLC

\* ---------------------------------------------------------------- bounds
\* The clock stops advancing at MaxTime seconds.
MaxTime == 4
\* The clock of the window specification stops at MaxWindowTime seconds.
MaxWindowTime == 64
MaxCallTime == 3             \* the last second at which a timed call starts

\* ---------------------------------------------------- program constants
\* ratelimit.NewBucketWithQuantum(4*time.Second, 15, 1)
fillInterval == 4
capacity == 15
quantum == 1
\* resp.StatusCode == 429
StatusTooManyRequests == 429
httpTimeout == 10            \* httpClient.Timeout, in seconds

urlBase == "check.getipintel.net/check.php"
Static == "m"
Dynamic == "b"

\* The nil error; no fmt.Errorf of the package produces this text.
NilErr == "<nil>"

\* The goroutines that call GetProxyScore, each on a Client of its own.
Procs == {"g1", "g2"}

\* ------------------------------------------------------------- NewClient
NewClient(email, ssl, check, mWait) ==
    [Email   |-> email,
     Scheme  |-> IF ssl THEN "https" ELSE "http",
     Check   |-> check,
     MaxWait |-> mWait]

\* The clients the callers construct (MaxWait in seconds).
Clients ==
    { NewClient("a@b.com", FALSE, Static, 0),
      NewClient("a@b.com", TRUE, Dynamic, 5) }

\* The ip arguments; the second one carries an invalid percent escape, on
\* which http.NewRequest fails to parse the URL.
Ips == {"1.2.3.4", "1.2.3.%zz"}
UnparseableIps == {"1.2.3.%zz"}

\* Mutant: the contact parameter is written before the ip parameter.
getURL_ContactFirst(c, ip) ==
    c.Scheme \o "://" \o urlBase \o "?contact=" \o c.Email \o "&ip=" \o ip
        \o "&flags=" \o c.Check \o "&format=json"

\* Lines 117-120: fmt.Sprintf("%s://%s?ip=%s&contact=%s&flags=%s&format=json").
getURL(c, ip) ==
    c.Scheme \o "://" \o urlBase \o "?ip=" \o ip \o "&contact=" \o c.Email
        \o "&flags=" \o c.Check \o "&format=json"

\* ------------------------------------------------------ the token bucket
Min(a, b) == IF a < b THEN a ELSE b

\* Bucket.currentTick: the number of fill intervals elapsed at time t.
currentTick(t) == t \div fillInterval

\* Mutant: every refill tick fills the bucket up instead of adding quantum.
adjustavailableTokens_RefillAll(avail, tick, lastTick) ==
    IF avail >= capacity
    THEN avail
    ELSE Min(capacity, avail + (tick - lastTick) * capacity)

\* Mutant: the refill does not saturate at capacity.
adjustavailableTokens_NoSaturation(avail, tick, lastTick) ==
    avail + (tick - lastTick) * quantum

\* Bucket.adjustavailableTokens: credit the ticks elapsed since latestTick,
\* saturating at capacity.
adjustavailableTokens(avail, tick, lastTick) ==
    IF avail >= capacity
    THEN avail
    ELSE Min(capacity, avail + (tick - lastTick) * quantum)

\* Mutant: the reservation is written before maxWait is checked, so a failed
\* take keeps the token.
take_ReserveThenFail(t, avail0, lastTick, count, maxWait) ==
    LET tick     == currentTick(t)
        adjusted == adjustavailableTokens(avail0, tick, lastTick)
        avail    == adjusted - count
        endTick  == tick + ((0 - avail) + quantum - 1) \div quantum
        waitTime == endTick * fillInterval - t
    IN  IF avail >= 0
        THEN [ok |-> TRUE, d |-> 0, avail |-> avail, tick |-> tick]
        ELSE IF waitTime > maxWait
        THEN [ok |-> FALSE, d |-> 0, avail |-> avail, tick |-> tick]
        ELSE [ok |-> TRUE, d |-> waitTime, avail |-> avail, tick |-> tick]

\* Mutant: off by one, a take is granted at once while one token is missing.
take_OffByOne(t, avail0, lastTick, count, maxWait) ==
    LET tick     == currentTick(t)
        adjusted == adjustavailableTokens(avail0, tick, lastTick)
        avail    == adjusted - count
        endTick  == tick + ((0 - avail) + quantum - 1) \div quantum
        waitTime == endTick * fillInterval - t
    IN  IF avail >= 0 - 1
        THEN [ok |-> TRUE, d |-> 0, avail |-> avail, tick |-> tick]
        ELSE IF waitTime > maxWait
        THEN [ok |-> FALSE, d |-> 0, avail |-> adjusted, tick |-> tick]
        ELSE [ok |-> TRUE, d |-> waitTime, avail |-> avail, tick |-> tick]

\* Mutant: an unsynchronised take, the last token can be handed out without
\* the count being written back.
take_LostUpdate(t, avail0, lastTick, count, maxWait) ==
    LET tick     == currentTick(t)
        adjusted == adjustavailableTokens(avail0, tick, lastTick)
        avail    == adjusted - count
        endTick  == tick + ((0 - avail) + quantum - 1) \div quantum
        waitTime == endTick * fillInterval - t
    IN  IF avail >= 0
        THEN [ok |-> TRUE, d |-> 0, avail |-> IF avail = 0 THEN adjusted ELSE avail,
              tick |-> tick]
        ELSE IF waitTime > maxWait
        THEN [ok |-> FALSE, d |-> 0, avail |-> adjusted, tick |-> tick]
        ELSE [ok |-> TRUE, d |-> waitTime, avail |-> avail, tick |-> tick]

\* Mutant: maxWait is not looked at, every caller is told to wait.
take_IgnoreMaxWait(t, avail0, lastTick, count, maxWait) ==
    LET tick     == currentTick(t)
        adjusted == adjustavailableTokens(avail0, tick, lastTick)
        avail    == adjusted - count
        endTick  == tick + ((0 - avail) + quantum - 1) \div quantum
        waitTime == endTick * fillInterval - t
    IN  IF avail >= 0
        THEN [ok |-> TRUE, d |-> 0, avail |-> avail, tick |-> tick]
        ELSE [ok |-> TRUE, d |-> waitTime, avail |-> avail, tick |-> tick]

\* Bucket.take(now, count, maxWait): [ok, d, avail, tick], d the time the
\* caller has to sleep and avail the bucket's count afterwards.
take(t, avail0, lastTick, count, maxWait) ==
    LET tick     == currentTick(t)
        adjusted == adjustavailableTokens(avail0, tick, lastTick)
        avail    == adjusted - count
        endTick  == tick + ((0 - avail) + quantum - 1) \div quantum
        waitTime == endTick * fillInterval - t
    IN  IF avail >= 0
        THEN [ok |-> TRUE, d |-> 0, avail |-> avail, tick |-> tick]
        ELSE IF waitTime > maxWait
        THEN [ok |-> FALSE, d |-> 0, avail |-> adjusted, tick |-> tick]
        ELSE [ok |-> TRUE, d |-> waitTime, avail |-> avail, tick |-> tick]

\* time.Duration.String for whole seconds below one minute.
DurationString(d) == ToString(d) \o "s"

\* The error texts of lines 72 and 90.
ErrThrottled(maxWait) ==
    "Throttled: Can't make query within the next " \o DurationString(maxWait)
ErrRateLimit == "API error: Rate limit exceeded"

\* ------------------------------------------------- the service's answers
\* A JSON member: absent, a JSON string, or a JSON number (v its text).
Absent == [t |-> "absent", v |-> ""]
JString(s) == [t |-> "string", v |-> s]
JNumber(s) == [t |-> "number", v |-> s]

\* A body that is not JSON at all, and JSON objects with the three members.
Malformed == [valid |-> FALSE, status |-> Absent, message |-> Absent, result |-> Absent]
Object(st, msg, res) == [valid |-> TRUE, status |-> st, message |-> msg, result |-> res]

BodySuccess    == Object(JString("success"), Absent, JString("0.5"))
BodyError      == Object(JString("error"), JString("no results"), JString("-2"))
BodyBareResult == Object(JString("success"), Absent, JNumber("0.5"))
\* The message member is whatever the service writes into it.
BodyRateLimitMessage == Object(JString("error"), JString("Rate limit exceeded"), JString("-2"))

Responses ==
    { [StatusCode |-> 200, Body |-> BodySuccess],
      [StatusCode |-> 200, Body |-> BodyError],
      [StatusCode |-> 200, Body |-> Malformed],
      [StatusCode |-> 200, Body |-> BodyBareResult],
      [StatusCode |-> StatusTooManyRequests, Body |-> BodySuccess],
      [StatusCode |-> StatusTooManyRequests, Body |-> BodyError],
      [StatusCode |-> StatusTooManyRequests, Body |-> Malformed] }

\* The errors httpClient.Do returns (here: the 10 s timeout expired).
TransportErrs == {"context deadline exceeded"}

\* strconv.ParseFloat on the literals the bodies carry, in hundredths.
ParseFloat(s) ==
    CASE s = "0.5" -> [ok |-> TRUE, f |-> 50]
      [] s = "-2"  -> [ok |-> TRUE, f |-> 0 - 200]
      [] s = "0"   -> [ok |-> TRUE, f |-> 0]
      [] s = "1"   -> [ok |-> TRUE, f |-> 100]
      [] OTHER     -> [ok |-> FALSE, f |-> 0]

\* json.Decoder.Decode into
\*   struct { Status string `json:"status"`; ErrMsg string `json:"message"`;
\*            Score float32 `json:"result,string"` }
\* An absent member leaves the field at its zero value.
Decode(body) ==
    LET fail(msg) == [err |-> msg, Status |-> "", ErrMsg |-> "", Score |-> 0]
    IN  IF ~body.valid
        THEN fail("invalid character '<' looking for beginning of value")
        ELSE IF body.status.t = "number"
        THEN fail("json: cannot unmarshal number into Go struct field response.status of type string")
        ELSE IF body.message.t = "number"
        THEN fail("json: cannot unmarshal number into Go struct field response.message of type string")
        ELSE IF body.result.t = "number"
        THEN fail("json: invalid use of ,string struct tag, trying to unmarshal unquoted value into float32")
        ELSE IF body.result.t = "string" /\ ~ParseFloat(body.result.v).ok
        THEN fail("json: invalid use of ,string struct tag, trying to unmarshal \""
                    \o body.result.v \o "\" into float32")
        ELSE [err    |-> NilErr,
              Status |-> body.status.v,
              ErrMsg |-> body.message.v,
              Score  |-> IF body.result.t = "string"
                         THEN ParseFloat(body.result.v).f ELSE 0]

VARIABLES
    now,              \* seconds since the bucket was created
    availableTokens,  \* rateLimiter.availableTokens
    latestTick,       \* rateLimiter.latestTick
    client,           \* the Client of each goroutine
    pc,               \* where each goroutine is in GetProxyScore
    ip,               \* the ip argument of the call in progress
    wake,             \* the time a sleeping caller's token is due
    resp,             \* the response httpClient.Do returned
    score,            \* the named result score
    err,              \* the named result err
    acquired,         \* tokens the call in progress has taken from the bucket
    attempts,         \* HTTP requests the call in progress has issued
    winStart,         \* the refill tick at which the observed window starts
    winCount,         \* tokens released to callers that fell due in the window
    burst,            \* tokens taken without waiting since the last refill tick
    req,              \* the URL of the request handed to httpClient.Do
    bodyOpen,         \* whether the call's resp.Body is still open
    sent              \* the time the request in flight was handed to Do

bucket == <<availableTokens, latestTick>>
locals == <<pc, ip, wake, resp, score, err, acquired, attempts, req, bodyOpen>>
vars == <<now, availableTokens, latestTick, client, pc, ip, wake, resp, score, err,
          acquired, attempts, winStart, winCount, burst, req, bodyOpen, sent>>

NoResp == [StatusCode |-> 0, Body |-> Malformed]

Init ==
    /\ now = 0
    /\ availableTokens = capacity
    /\ latestTick = 0
    /\ client \in [Procs -> Clients]
    /\ pc = [p \in Procs |-> "idle"]
    /\ ip = [p \in Procs |-> ""]
    /\ wake = [p \in Procs |-> 0]
    /\ resp = [p \in Procs |-> NoResp]
    /\ score = [p \in Procs |-> 0]
    /\ err = [p \in Procs |-> NilErr]
    /\ acquired = [p \in Procs |-> 0]
    /\ attempts = [p \in Procs |-> 0]
    /\ winStart \in 0..currentTick(MaxTime)
    /\ winCount = 0
    /\ burst = 0
    /\ req = [p \in Procs |-> ""]
    /\ bodyOpen = [p \in Procs |-> FALSE]
    /\ sent = [p \in Procs |-> 0]

\* The clock advances by one second; crossing a refill tick ends the burst.
Tick ==
    /\ now < MaxTime
    /\ now' = now + 1
    /\ burst' = IF currentTick(now + 1) = currentTick(now) THEN burst ELSE 0
    /\ UNCHANGED <<bucket, client, locals, winStart, winCount, sent>>

\* WaitMaxDuration returns true with a token that fell due at time t: the
\* time of the call when a token was available, else the time the caller was
\* told to sleep until.
Release(t) == IF currentTick(t) >= winStart THEN winCount + 1 ELSE winCount

\* GetProxyScore returns (s, e).  The goroutine keeps the argument and the
\* response of the call it has just made until it calls again.
ReturnTo(p, s, e) ==
    /\ pc' = [pc EXCEPT ![p] = "done"]
    /\ score' = [score EXCEPT ![p] = s]
    /\ err' = [err EXCEPT ![p] = e]

\* The naked return with a non-nil err: the named result score is still 0.
ReturnErr(p, e) == ReturnTo(p, score[p], e)

\* Mutant: the return of line 73 is missing, the call runs on to the request.
Throttled_NoReturn(p, i) ==
    /\ pc' = [pc EXCEPT ![p] = "in-flight"]
    /\ err' = [err EXCEPT ![p] = ErrThrottled(client[p].MaxWait)]
    /\ attempts' = [attempts EXCEPT ![p] = @ + 1]
    /\ ip' = [ip EXCEPT ![p] = i]
    /\ UNCHANGED <<wake, resp, score, req>>

\* Lines 72-73: WaitMaxDuration returned false.
Throttled(p, i) ==
    /\ ReturnErr(p, ErrThrottled(client[p].MaxWait))
    /\ ip' = [ip EXCEPT ![p] = i]
    /\ UNCHANGED <<wake, resp, attempts, req>>

\* WaitMaxDuration sleeps for d: the caller waits for its token.
Sleep(p, i, d) ==
    /\ pc' = [pc EXCEPT ![p] = "awaiting-token"]
    /\ ip' = [ip EXCEPT ![p] = i]
    /\ wake' = [wake EXCEPT ![p] = now + d]
    /\ UNCHANGED <<resp, score, err, attempts, req>>

\* Lines 76-83, reached once WaitMaxDuration has returned true: prepare the
\* request and hand it to httpClient.Do.
IssueRequest(p, i) ==
    /\ ip' = [ip EXCEPT ![p] = i]
    /\ wake' = [wake EXCEPT ![p] = 0]
    /\ UNCHANGED resp
    /\ IF i \in UnparseableIps
       THEN /\ ReturnErr(p, "Failed preparing request: parse \"" \o getURL(client[p], i)
                               \o "\": invalid URL escape \"%zz\"")
            /\ UNCHANGED <<attempts, req>>
       ELSE /\ pc' = [pc EXCEPT ![p] = "in-flight"]
            /\ attempts' = [attempts EXCEPT ![p] = @ + 1]
            /\ req' = [req EXCEPT ![p] = getURL(client[p], i)]
            /\ UNCHANGED <<err, score>>

\* Mutant: a throttled call raises the client's MaxWait for the next call.
Acquire_Backoff(p, i) ==
    /\ pc[p] = "idle"
    /\ LET r == take(now, availableTokens, latestTick, 1, client[p].MaxWait)
       IN  /\ availableTokens' = r.avail
           /\ latestTick' = r.tick
           /\ acquired' = [acquired EXCEPT ![p] = IF r.ok THEN @ + 1 ELSE @]
           /\ IF ~r.ok
              THEN /\ Throttled(p, i)
                   /\ client' = [client EXCEPT ![p].MaxWait = fillInterval]
                   /\ UNCHANGED <<winCount, burst>>
              ELSE IF r.d > 0
              THEN /\ Sleep(p, i, r.d)
                   /\ UNCHANGED <<winCount, burst, client>>
              ELSE /\ IssueRequest(p, i)
                   /\ winCount' = Release(now)
                   /\ burst' = burst + 1
                   /\ UNCHANGED client
    /\ UNCHANGED <<now, winStart, bodyOpen>>

\* Line 71: rateLimiter.WaitMaxDuration(1, c.MaxWait) up to the point where
\* it either returns or goes to sleep; when it returns at once the call runs
\* on to line 83.
Acquire(p, i) ==
    /\ pc[p] = "idle"
    /\ LET r == take(now, availableTokens, latestTick, 1, client[p].MaxWait)
       IN  /\ availableTokens' = r.avail
           /\ latestTick' = r.tick
           /\ acquired' = [acquired EXCEPT ![p] = IF r.ok THEN @ + 1 ELSE @]
           /\ IF ~r.ok
              THEN /\ Throttled(p, i)
                   /\ UNCHANGED <<winCount, burst>>
              ELSE IF r.d > 0
              THEN /\ Sleep(p, i, r.d)
                   /\ UNCHANGED <<winCount, burst>>
              ELSE /\ IssueRequest(p, i)
                   /\ winCount' = Release(now)
                   /\ burst' = burst + 1
    /\ UNCHANGED <<now, client, winStart, bodyOpen>>

\* The sleep inside WaitMaxDuration ends (time.Sleep sleeps at least d) and
\* the call runs on to line 83.
Wake(p) ==
    /\ pc[p] = "awaiting-token"
    /\ now >= wake[p]
    /\ IssueRequest(p, ip[p])
    /\ winCount' = Release(wake[p])
    /\ UNCHANGED <<now, bucket, client, acquired, winStart, burst, bodyOpen>>

\* Mutant: a failed request gives its token back to the bucket.
TransportFail_Refund(p, e) ==
    /\ pc[p] = "in-flight"
    /\ ReturnErr(p, "Failed to query API: Get \"" \o getURL(client[p], ip[p])
                        \o "\": " \o e)
    /\ availableTokens' = availableTokens + 1
    /\ UNCHANGED <<now, latestTick, client, ip, wake, resp, acquired, attempts,
                   winStart, winCount, burst, req, bodyOpen>>

\* Mutant: a failed request is sent again.
TransportFail_Retry(p, e) ==
    /\ pc[p] = "in-flight"
    /\ attempts[p] < 3
    /\ attempts' = [attempts EXCEPT ![p] = @ + 1]
    /\ UNCHANGED <<now, bucket, client, pc, ip, wake, resp, score, err, acquired,
                   winStart, winCount, burst, req, bodyOpen>>

\* Lines 83-87: httpClient.Do fails.
TransportFail(p, e) ==
    /\ pc[p] = "in-flight"
    /\ ReturnErr(p, "Failed to query API: Get \"" \o getURL(client[p], ip[p])
                        \o "\": " \o e)
    /\ UNCHANGED <<now, bucket, client, ip, wake, resp, acquired, attempts,
                   winStart, winCount, burst, req, bodyOpen>>

\* Line 83: httpClient.Do returns a response.
Respond(p, r) ==
    /\ pc[p] = "in-flight"
    /\ pc' = [pc EXCEPT ![p] = "decoding"]
    /\ resp' = [resp EXCEPT ![p] = r]
    /\ bodyOpen' = [bodyOpen EXCEPT ![p] = TRUE]
    /\ UNCHANGED <<now, bucket, client, ip, wake, score, err, acquired, attempts,
                   winStart, winCount, burst, req>>

\* Line 101: defer resp.Body.Close() is reached only by the returns below
\* it; the return of line 91 comes before it and leaves the body as it is.
BodyAfterReturn(r, open) ==
    IF r.StatusCode = StatusTooManyRequests THEN open ELSE FALSE

\* Mutant: the body is decoded before the status code is looked at.
Validate_DecodeFirst(p) ==
    /\ pc[p] = "decoding"
    /\ LET respObj == Decode(resp[p].Body)
       IN  IF respObj.err # NilErr
           THEN ReturnErr(p, "Failed to parse API response: " \o respObj.err)
           ELSE IF resp[p].StatusCode = StatusTooManyRequests
           THEN ReturnErr(p, ErrRateLimit)
           ELSE IF respObj.Status # "success"
           THEN ReturnErr(p, "API error: " \o respObj.ErrMsg)
           ELSE ReturnTo(p, respObj.Score, NilErr)
    /\ bodyOpen' = [bodyOpen EXCEPT ![p] = BodyAfterReturn(resp[p], @)]
    /\ UNCHANGED <<now, bucket, client, ip, wake, resp, acquired, attempts,
                   winStart, winCount, burst, req>>

\* Mutant: the decoded status is not checked.
Validate_IgnoreStatus(p) ==
    /\ pc[p] = "decoding"
    /\ LET respObj == Decode(resp[p].Body)
       IN  IF resp[p].StatusCode = StatusTooManyRequests
           THEN ReturnErr(p, ErrRateLimit)
           ELSE IF respObj.err # NilErr
           THEN ReturnErr(p, "Failed to parse API response: " \o respObj.err)
           ELSE ReturnTo(p, respObj.Score, NilErr)
    /\ bodyOpen' = [bodyOpen EXCEPT ![p] = BodyAfterReturn(resp[p], @)]
    /\ UNCHANGED <<now, bucket, client, ip, wake, resp, acquired, attempts,
                   winStart, winCount, burst, req>>

\* Mutant: a service error is reported without the service's message.
Validate_DropMessage(p) ==
    /\ pc[p] = "decoding"
    /\ LET respObj == Decode(resp[p].Body)
       IN  IF resp[p].StatusCode = StatusTooManyRequests
           THEN ReturnErr(p, ErrRateLimit)
           ELSE IF respObj.err # NilErr
           THEN ReturnErr(p, "Failed to parse API response: " \o respObj.err)
           ELSE IF respObj.Status # "success"
           THEN ReturnErr(p, "API error: ")
           ELSE ReturnTo(p, respObj.Score, NilErr)
    /\ bodyOpen' = [bodyOpen EXCEPT ![p] = BodyAfterReturn(resp[p], @)]
    /\ UNCHANGED <<now, bucket, client, ip, wake, resp, acquired, attempts,
                   winStart, winCount, burst, req>>

\* Mutant: the decoder's error is not looked at.
Validate_IgnoreDecodeErr(p) ==
    /\ pc[p] = "decoding"
    /\ LET respObj == Decode(resp[p].Body)
       IN  IF resp[p].StatusCode = StatusTooManyRequests
           THEN ReturnErr(p, ErrRateLimit)
           ELSE IF respObj.Status # "success"
           THEN ReturnErr(p, "API error: " \o respObj.ErrMsg)
           ELSE ReturnTo(p, respObj.Score, NilErr)
    /\ bodyOpen' = [bodyOpen EXCEPT ![p] = BodyAfterReturn(resp[p], @)]
    /\ UNCHANGED <<now, bucket, client, ip, wake, resp, acquired, attempts,
                   winStart, winCount, burst, req>>

\* Mutant: the decoded result is returned together with a service error.
Validate_LeakScore(p) ==
    /\ pc[p] = "decoding"
    /\ LET respObj == Decode(resp[p].Body)
       IN  IF resp[p].StatusCode = StatusTooManyRequests
           THEN ReturnErr(p, ErrRateLimit)
           ELSE IF respObj.err # NilErr
           THEN ReturnErr(p, "Failed to parse API response: " \o respObj.err)
           ELSE IF respObj.Status # "success"
           THEN ReturnTo(p, respObj.Score, "API error: " \o respObj.ErrMsg)
           ELSE ReturnTo(p, respObj.Score, NilErr)
    /\ bodyOpen' = [bodyOpen EXCEPT ![p] = BodyAfterReturn(resp[p], @)]
    /\ UNCHANGED <<now, bucket, client, ip, wake, resp, acquired, attempts,
                   winStart, winCount, burst, req>>

\* Lines 89-114: the status check, the decoding and the result.
Validate(p) ==
    /\ pc[p] = "decoding"
    /\ LET respObj == Decode(resp[p].Body)
       IN  IF resp[p].StatusCode = StatusTooManyRequests
           THEN ReturnErr(p, ErrRateLimit)
           ELSE IF respObj.err # NilErr
           THEN ReturnErr(p, "Failed to parse API response: " \o respObj.err)
           ELSE IF respObj.Status # "success"
           THEN ReturnErr(p, "API error: " \o respObj.ErrMsg)
           ELSE ReturnTo(p, respObj.Score, NilErr)
    /\ bodyOpen' = [bodyOpen EXCEPT ![p] = BodyAfterReturn(resp[p], @)]
    /\ UNCHANGED <<now, bucket, client, ip, wake, resp, acquired, attempts,
                   winStart, winCount, burst, req>>

\* The caller has used its result; the goroutine is free to call again.
Return(p) ==
    /\ pc[p] = "done"
    /\ pc' = [pc EXCEPT ![p] = "idle"]
    /\ ip' = [ip EXCEPT ![p] = ""]
    /\ resp' = [resp EXCEPT ![p] = NoResp]
    /\ score' = [score EXCEPT ![p] = 0]
    /\ err' = [err EXCEPT ![p] = NilErr]
    /\ acquired' = [acquired EXCEPT ![p] = 0]
    /\ attempts' = [attempts EXCEPT ![p] = 0]
    /\ req' = [req EXCEPT ![p] = ""]
    /\ bodyOpen' = [bodyOpen EXCEPT ![p] = FALSE]
    /\ UNCHANGED <<now, bucket, client, wake, winStart, winCount, burst>>

\* The transport's clock is not followed here: the request ends with an
\* error or a response at any moment, and sent stays as it is.
GetProxyScore(p) ==
    \/ (\E i \in Ips : Acquire(p, i)) /\ UNCHANGED sent
    \/ Wake(p) /\ UNCHANGED sent
    \/ (\E e \in TransportErrs : TransportFail(p, e)) /\ UNCHANGED sent
    \/ (\E r \in Responses : Respond(p, r)) /\ UNCHANGED sent
    \/ Validate(p) /\ UNCHANGED sent
    \/ Return(p) /\ UNCHANGED sent

Next ==
    \/ Tick
    \/ \E p \in Procs : GetProxyScore(p)

Spec == Init /\ [][Next]_vars

\* ------------------------------------------ a whole minute of the bucket
\* The same goroutines over more than 60 seconds: both clients wait up to
\* 5 s, the service always answers with a score, the clock advances one
\* refill interval at a time and the observed window starts at tick 1.
InitWindow ==
    /\ Init
    /\ client = [p \in Procs |-> NewClient("a@b.com", TRUE, Dynamic, 5)]
    /\ winStart = 1

TickInterval ==
    /\ now < MaxWindowTime
    /\ now' = now + fillInterval
    /\ burst' = 0
    /\ UNCHANGED <<bucket, client, locals, winStart, winCount, sent>>

NextWindow ==
    \/ TickInterval
    \/ \E p \in Procs :
          \/ Acquire(p, "1.2.3.4") /\ UNCHANGED sent
          \/ Wake(p) /\ UNCHANGED sent
          \/ Respond(p, [StatusCode |-> 200, Body |-> BodySuccess]) /\ UNCHANGED sent
          \/ Validate(p) /\ UNCHANGED sent
          \/ Return(p) /\ UNCHANGED sent

SpecWindow == InitWindow /\ [][NextWindow]_vars

\* ------------------------------------------- the service's own messages
\* The two goroutines with one client each and a service that may also put
\* the text "Rate limit exceeded" into the message member of an error body.
ServiceResponses ==
    Responses \cup {[StatusCode |-> 200, Body |-> BodyRateLimitMessage]}

InitService ==
    /\ Init
    /\ client = [p \in Procs |-> IF p = "g1"
                                 THEN NewClient("a@b.com", FALSE, Static, 0)
                                 ELSE NewClient("a@b.com", TRUE, Dynamic, 5)]
    /\ winStart = 0

NextService ==
    \/ Tick
    \/ \E p \in Procs :
          \/ (\E i \in Ips : Acquire(p, i)) /\ UNCHANGED sent
          \/ Wake(p) /\ UNCHANGED sent
          \/ (\E e \in TransportErrs : TransportFail(p, e)) /\ UNCHANGED sent
          \/ (\E r \in ServiceResponses : Respond(p, r)) /\ UNCHANGED sent
          \/ Validate(p) /\ UNCHANGED sent
          \/ Return(p) /\ UNCHANGED sent

SpecService == InitService /\ [][NextService]_vars

\* ------------------------------------------------ calls against the clock
\* Both goroutines wait up to 5 s and start their calls within the first
\* MaxCallTime seconds.  The transport's timer is followed: sent is the time
\* the request was handed to httpClient.Do, and the clock does not pass
\* sent + httpTimeout while the request or the reading of its body is still
\* under way (http.Client.Timeout covers both).
LiveClient == NewClient("a@b.com", TRUE, Dynamic, 5)

InitLive ==
    /\ Init
    /\ client = [p \in Procs |-> LiveClient]
    /\ winStart = 0

Horizon == MaxCallTime + LiveClient.MaxWait + httpTimeout

\* The service answers with a score or with a body that does not decode.
LiveResponses ==
    { [StatusCode |-> 200, Body |-> BodySuccess],
      [StatusCode |-> 200, Body |-> Malformed] }

TickLive ==
    /\ now < Horizon
    /\ \A p \in Procs :
          pc[p] \in {"in-flight", "decoding"} => now < sent[p] + httpTimeout
    /\ now' = now + 1
    /\ burst' = IF currentTick(now + 1) = currentTick(now) THEN burst ELSE 0
    /\ UNCHANGED <<bucket, client, locals, winStart, winCount, sent>>

\* httpClient.Do starts its timer when the request is issued.
Stamp(p) == sent' = [sent EXCEPT ![p] = IF pc'[p] = "in-flight" THEN now ELSE 0]
Unstamp(p) == sent' = [sent EXCEPT ![p] = 0]

\* The steps of a call under way that need nothing but the passing of time.
Finish(p) ==
    \/ Wake(p) /\ Stamp(p)
    \/ (\E e \in TransportErrs : TransportFail(p, e)) /\ Unstamp(p)
    \/ (\E r \in LiveResponses : Respond(p, r)) /\ UNCHANGED sent
    \/ Validate(p) /\ Unstamp(p)

NextLive ==
    \/ TickLive
    \/ \E p \in Procs :
          \/ now <= MaxCallTime /\ (\E i \in Ips : Acquire(p, i)) /\ Stamp(p)
          \/ Finish(p)
          \/ Return(p) /\ UNCHANGED sent

\* Time passes, a sleeping goroutine is woken once its time has come, the
\* transport answers or gives up by its timeout, and a goroutine that has
\* its response runs on.
SpecLive ==
    /\ InitLive
    /\ [][NextLive]_vars
    /\ WF_vars(TickLive)
    /\ \A p \in Procs : WF_vars(Finish(p))

\* ------------------------------------------------------------ properties
\* The tokens in the bucket at the present time: what a take would find
\* after crediting the refill ticks elapsed since the last one.
Tokens == adjustavailableTokens(availableTokens, currentTick(now), latestTick)

\* The time until the bucket could hand one more token to a new caller.
NextTokenDelay ==
    IF Tokens >= 1
    THEN 0
    ELSE (currentTick(now) + ((1 - Tokens) + quantum - 1) \div quantum) * fillInterval - now

\* Goroutine p makes its call of WaitMaxDuration in this step.
Acquires(p) == pc[p] = "idle" /\ pc'[p] # "idle"

\* C1: with MaxWait zero the acquisition in GetProxyScore never fails: no
\* call on a client whose MaxWait is 0 returns the throttling error.
C1_ZeroMaxWaitNeverThrottled ==
    \A p \in Procs :
        (pc[p] = "done" /\ client[p].MaxWait = 0) => err[p] # ErrThrottled(0)

\* C2: a call with a positive MaxWait made when no token can become
\* available within MaxWait fails with the throttling error, takes no token
\* and leaves the bucket's token count as it was.
C2_FailedAcquireTakesNothing ==
    [][\A p \in Procs :
          (Acquires(p) /\ client[p].MaxWait > 0 /\ NextTokenDelay > client[p].MaxWait)
              => /\ pc'[p] = "done"
                 /\ err'[p] = ErrThrottled(client[p].MaxWait)
                 /\ acquired'[p] = 0
                 /\ Tokens' = Tokens]_vars

C2_Witness ==
    \E p \in Procs :
        /\ pc[p] = "done"
        /\ client[p].MaxWait > 0
        /\ err[p] = ErrThrottled(client[p].MaxWait)
        /\ acquired[p] = 0

\* C3: a call issues an HTTP request only once the limiter has granted it a
\* token and released it; a call whose acquisition failed returns the
\* throttling error and has issued no request.
C3_RequestOnlyAfterGrant ==
    \A p \in Procs :
        /\ attempts[p] > 0 => (acquired[p] > 0 /\ pc[p] # "awaiting-token")
        /\ (pc[p] = "done" /\ acquired[p] = 0)
              => (attempts[p] = 0 /\ err[p] = ErrThrottled(client[p].MaxWait))

C3_Witness ==
    \E p, q \in Procs :
        /\ pc[p] = "done" /\ acquired[p] = 0 /\ attempts[p] = 0
        /\ pc[q] = "in-flight" /\ acquired[q] = 1

\* C4 (as claimed): in any 60-second window at most 15 tokens are consumed
\* from the shared bucket.  The observed window starts at tick winStart; while
\* it is no longer than 60 seconds it has released at most capacity tokens.
C4_AtMost15PerWindow ==
    (currentTick(now) >= winStart
        /\ (currentTick(now) - winStart) * fillInterval <= 60)
        => winCount <= capacity

\* C4 (amended): in a window that spans k refill ticks at most 15 + k tokens
\* are consumed, the burst capacity plus one token per refill tick: up to 30
\* in a 60-second window, which spans up to 15 ticks.
C4_AtMostCapacityPlusRefill ==
    currentTick(now) >= winStart
        => /\ winCount <= capacity + (currentTick(now) - winStart) * quantum
           /\ (currentTick(now) - winStart) * fillInterval <= 60 => winCount <= 30

C4_Witness ==
    /\ winCount = 30
    /\ (currentTick(now) - winStart) * fillInterval = 60

C6_SharedBucketNotCorrupted ==
    /\ [](winStart = 0 => winCount <= capacity + currentTick(now) * quantum)
    /\ [][\A p \in Procs :
             Acquires(p) => Tokens' = Tokens - (acquired'[p] - acquired[p])]_vars

C6_Witness ==
    /\ winStart = 0
    /\ winCount = capacity + currentTick(now) * quantum
    /\ currentTick(now) > 0
    /\ \A p \in Procs : acquired[p] = 1 /\ pc[p] = "in-flight"

\* C7: a token once acquired stays consumed: the step in which a call ends
\* in an error (request preparation, transport, HTTP 429, parse failure,
\* service error) takes from the bucket only the token the call acquires in
\* that very step, and gives nothing back.
C7_NoRefundOnFailure ==
    [][\A p \in Procs :
          (pc[p] # "done" /\ pc'[p] = "done" /\ acquired'[p] = 1 /\ err'[p] # NilErr)
              => Tokens' = Tokens - (acquired'[p] - acquired[p])]_vars

C7_Witness ==
    \E p \in Procs :
        /\ pc[p] = "done" /\ acquired[p] = 1 /\ err[p] # NilErr
        /\ resp[p] = [StatusCode |-> 200, Body |-> Malformed]
        /\ Tokens = capacity - 1

\* C8: a call makes at most one HTTP attempt and takes at most one token,
\* also when the transport failed or the response was an error.
C8_AtMostOneAttempt ==
    \A p \in Procs : attempts[p] <= 1 /\ acquired[p] <= 1

C8_Witness ==
    \E p \in Procs :
        /\ pc[p] = "done" /\ attempts[p] = 1 /\ acquired[p] = 1
        /\ resp[p] = NoResp /\ err[p] # NilErr

\* C9: a response with HTTP status 429 yields the rate-limit-exceeded error
\* whatever its body is.
C9_Status429IgnoresBody ==
    \A p \in Procs :
        (pc[p] = "done" /\ resp[p].StatusCode = StatusTooManyRequests)
            => (err[p] = ErrRateLimit /\ score[p] = 0)

C9_Witness ==
    \E p, q \in Procs :
        /\ pc[p] = "done" /\ resp[p] = [StatusCode |-> StatusTooManyRequests, Body |-> BodySuccess]
        /\ pc[q] = "done" /\ resp[q] = [StatusCode |-> StatusTooManyRequests, Body |-> Malformed]
        /\ err[p] = err[q]

\* C10: a call returns a nil error exactly when the token was granted, the
\* transport delivered a response, its status is not 429, its body decoded
\* and the decoded status is "success"; the score is then the decoded result
\* (0.5 for "0.5").
C10_SuccessExactlyWhen ==
    \A p \in Procs :
        pc[p] = "done"
            => /\ err[p] = NilErr
                    <=> /\ acquired[p] = 1
                        /\ attempts[p] = 1
                        /\ resp[p] # NoResp
                        /\ resp[p].StatusCode # StatusTooManyRequests
                        /\ Decode(resp[p].Body).err = NilErr
                        /\ resp[p].Body.status = JString("success")
               /\ err[p] = NilErr => score[p] = Decode(resp[p].Body).Score
               /\ (err[p] = NilErr /\ resp[p].Body.result = JString("0.5")) => score[p] = 50

C10_Witness ==
    \E p \in Procs :
        /\ pc[p] = "done" /\ err[p] = NilErr /\ score[p] = 50
        /\ resp[p] = [StatusCode |-> 200, Body |-> BodySuccess]

\* C11: a response that is not a 429, whose body decodes and whose status
\* field is not "success", ends the call with the error "API error: "
\* followed by the service's message field, and the decoded result is not
\* returned as the score.
C11_ServiceErrorCarriesMessage ==
    \A p \in Procs :
        ( /\ pc[p] = "done"
          /\ resp[p] # NoResp
          /\ resp[p].StatusCode # StatusTooManyRequests
          /\ Decode(resp[p].Body).err = NilErr
          /\ Decode(resp[p].Body).Status # "success" )
            => /\ err[p] = "API error: " \o Decode(resp[p].Body).ErrMsg
               /\ score[p] = 0

C11_Witness ==
    \E p \in Procs :
        /\ pc[p] = "done"
        /\ resp[p] = [StatusCode |-> 200, Body |-> BodyError]
        /\ err[p] = "API error: no results"
        /\ Decode(resp[p].Body).Score = -200
        /\ score[p] = 0

\* C12: a response that is not a 429 and whose body does not decode into
\* the expected shape ends the call in the ordinary way, with the error
\* "Failed to parse API response: " followed by the decoder's error and
\* the score 0; the decoding step has no other exit than the return.
C12_ParseFailureIsAnError ==
    /\ [](\A p \in Procs :
            ( /\ pc[p] = "done"
              /\ resp[p] # NoResp
              /\ resp[p].StatusCode # StatusTooManyRequests
              /\ Decode(resp[p].Body).err # NilErr )
                => /\ err[p] = "Failed to parse API response: "
                                  \o Decode(resp[p].Body).err
                   /\ score[p] = 0)
    /\ [][\A p \in Procs :
            (pc[p] = "decoding" /\ pc'[p] # "decoding") => pc'[p] = "done"]_vars

C12_Witness ==
    \E p, q \in Procs :
        /\ pc[p] = "done" /\ resp[p] = [StatusCode |-> 200, Body |-> Malformed]
        /\ pc[q] = "done" /\ resp[q] = [StatusCode |-> 200, Body |-> BodyBareResult]
        /\ err[p] # NilErr /\ err[q] # NilErr

\* C19: a call that returns an error returns the score 0, whichever of the
\* failures it was; the result field of a body whose status is not
\* "success" does not reach the caller.
C19_ErrorMeansZeroScore ==
    \A p \in Procs :
        (pc[p] = "done" /\ err[p] # NilErr) => score[p] = 0

C19_Witness ==
    \E p, q \in Procs :
        /\ pc[p] = "done" /\ acquired[p] = 0 /\ err[p] # NilErr /\ score[p] = 0
        /\ pc[q] = "done" /\ resp[q].StatusCode = 200
        /\ Decode(resp[q].Body).err = NilErr
        /\ Decode(resp[q].Body).Score # 0
        /\ err[q] # NilErr /\ score[q] = 0

\* C20: the bucket never holds more than capacity (15) tokens, neither in
\* its stored count nor in what a caller arriving now would find, however
\* long it was left alone; the passing of time adds quantum (1) token per
\* elapsed tick of 4 s up to capacity, and no tick sees more than 15 grants
\* without waiting.
C20_TokensNeverExceedCapacity ==
    /\ [](availableTokens <= capacity /\ Tokens <= capacity /\ burst <= capacity)
    /\ [][now' # now
            => Tokens' = Min(capacity,
                             Tokens + (currentTick(now') - currentTick(now)) * quantum)]_vars

C20_Witness ==
    /\ currentTick(now) = capacity + 1
    /\ burst = capacity
    /\ winCount = capacity
    /\ availableTokens = 0

\* C13: the URL of an issued request is fixed by the client's scheme, the
\* ip argument, the client's email and its check type:
\* {scheme}://check.getipintel.net/check.php?ip={ip}&contact={email}&flags={check}&format=json
\* with the values inserted as given; for 1.2.3.4, a@b.com, Static and no
\* ssl it is
\* http://check.getipintel.net/check.php?ip=1.2.3.4&contact=a@b.com&flags=m&format=json.
C13_RequestURL ==
    \A p \in Procs :
        attempts[p] = 1
            => /\ req[p] = client[p].Scheme \o "://check.getipintel.net/check.php?ip="
                             \o ip[p] \o "&contact=" \o client[p].Email
                             \o "&flags=" \o client[p].Check \o "&format=json"
               /\ ( /\ client[p].Scheme = "http"
                    /\ client[p].Email = "a@b.com"
                    /\ client[p].Check = "m"
                    /\ ip[p] = "1.2.3.4" )
                    => req[p] = "http://check.getipintel.net/check.php?ip=1.2.3.4&contact=a@b.com&flags=m&format=json"

C13_Witness ==
    \E p, q \in Procs :
        /\ pc[p] = "in-flight"
        /\ client[p] = NewClient("a@b.com", FALSE, Static, 0)
        /\ ip[p] = "1.2.3.4"
        /\ req[p] = "http://check.getipintel.net/check.php?ip=1.2.3.4&contact=a@b.com&flags=m&format=json"
        /\ pc[q] = "in-flight"
        /\ req[q] = "https://check.getipintel.net/check.php?ip=1.2.3.4&contact=a@b.com&flags=b&format=json"

\* What a finished call of goroutine p was given: its argument, its client,
\* whether the bucket granted a token, whether a request was issued and what
\* the transport delivered.
Given(p) == <<ip[p], client[p], acquired[p], attempts[p], resp[p]>>

\* C16: no step of GetProxyScore changes a Client (Email, Scheme, Check and
\* MaxWait stay as NewClient set them, on success and on every error); a
\* step of one call leaves the data of the other goroutine's call alone;
\* and the returned score and error are fixed by the argument, the client,
\* the bucket's decision and the transport's answer, so that two finished
\* calls that were given the same return the same, whatever calls failed
\* before them.
C16_OnlyTheBucketChanges ==
    /\ [][client' = client]_vars
    /\ [][\A p, q \in Procs :
            (p # q /\ pc'[p] # pc[p])
                => /\ pc'[q] = pc[q] /\ ip'[q] = ip[q] /\ resp'[q] = resp[q]
                   /\ score'[q] = score[q] /\ err'[q] = err[q]
                   /\ req'[q] = req[q] /\ wake'[q] = wake[q]]_vars
    /\ [](\A p, q \in Procs :
            (pc[p] = "done" /\ pc[q] = "done" /\ Given(p) = Given(q))
                => (score[p] = score[q] /\ err[p] = err[q]))

C16_Witness ==
    \E p, q \in Procs :
        /\ p # q
        /\ pc[p] = "done" /\ pc[q] = "done"
        /\ Given(p) = Given(q)
        /\ resp[p] = [StatusCode |-> 200, Body |-> BodyError]
        /\ err[p] = err[q] /\ err[p] # NilErr
        /\ client[p] = NewClient("a@b.com", TRUE, Dynamic, 5)
        /\ availableTokens < capacity

\* C18: a call that received an HTTP response (a 429, a body that does not
\* decode, a service error or a success) has closed the response body by
\* the time it returns, so no finished call holds an open body.
C18_BodyClosedAtReturn ==
    \A p \in Procs :
        (pc[p] = "done" /\ resp[p] # NoResp) => ~bodyOpen[p]

\* The kind of outcome of the finished call of goroutine p, by the place in
\* GetProxyScore it returned from.
Kind(p) ==
    IF acquired[p] = 0 THEN "ThrottledLocally"
    ELSE IF attempts[p] = 0 THEN "RequestPreparation"
    ELSE IF resp[p] = NoResp THEN "TransportFailure"
    ELSE IF resp[p].StatusCode = StatusTooManyRequests THEN "ServiceRateLimited"
    ELSE IF Decode(resp[p].Body).err # NilErr THEN "ParseFailure"
    ELSE IF Decode(resp[p].Body).Status # "success" THEN "ServiceError"
    ELSE "Success"

\* C17: the returned error tells which kind of failure occurred: two
\* finished calls that failed in different ways (throttled locally,
\* transport failure, HTTP 429, parse failure, service error) never carry
\* the same error, whatever message the service supplied.
C17_ErrorIdentifiesKind ==
    \A p, q \in Procs :
        (pc[p] = "done" /\ pc[q] = "done" /\ Kind(p) # Kind(q))
            => err[p] # err[q]

\* C14: callers that wait without bound (MaxWait = 0) on an empty bucket
\* are each granted a token in the end, however many of them there are and
\* whoever else keeps calling: none of their calls ever returns without
\* having been given a token.
C14_UnboundedWaitersAreServed ==
    \A p \in Procs :
        (pc[p] = "done" /\ client[p].MaxWait = 0) => acquired[p] = 1

\* The order of the states of a call; idle is the goroutine between calls.
Rank(st) ==
    CASE st = "idle"           -> 0
      [] st = "awaiting-token" -> 1
      [] st = "in-flight"      -> 2
      [] st = "decoding"       -> 3
      [] st = "done"           -> 4

\* C15: a call passes awaiting-token, in-flight, decoding and done in this
\* order (it may skip ahead to done with an error from each of them and is
\* never seen in an earlier state again until it has returned); the
\* acquisition tells the caller to sleep for at most MaxWait, the request
\* and its decoding are under way for at most the 10 s of the transport's
\* timeout; and with a positive MaxWait every call that was started reaches
\* done.
C15_CallReachesDoneInOrder ==
    /\ [][\A p \in Procs :
            /\ (pc[p] # "done" /\ pc'[p] # pc[p]) => Rank(pc'[p]) > Rank(pc[p])
            /\ (pc[p] = "done" /\ pc'[p] # pc[p]) => pc'[p] = "idle"
            /\ (pc[p] = "decoding" /\ pc'[p] # pc[p]) => pc'[p] = "done"
            /\ (pc[p] = "idle" /\ pc'[p] = "awaiting-token")
                    => (wake'[p] - now <= client[p].MaxWait /\ wake'[p] > now)]_vars
    /\ [](\A p \in Procs :
            pc[p] \in {"in-flight", "decoding"} => now - sent[p] <= httpTimeout)
    /\ \A p \in Procs :
            [](pc[p] # "idle" => <>(pc[p] = "done"))

C15_Witness ==
    \E p, q \in Procs :
        /\ pc[p] = "awaiting-token" /\ acquired[p] = 1
        /\ pc[q] = "in-flight" /\ now - sent[q] = httpTimeout
====
